---- MODULE Spec2Model ----
(***************************************************************************)
(* Model of the storyboard generator: the generation pipeline              *)
(* (generateStoryboard, src/services/geminiService.ts:30-158), the audio   *)
(* player (playAudio / stopAudio, src/services/geminiService.ts:161-210),  *)
(* the decoding of a PCM payload (decode and decodeAudioData, lines 20-28  *)
(* and 172-184) and the components that use them (App and                 *)
(* StoryboardDisplay, src/App.tsx).                                        *)
(***************************************************************************)
EXTENDS Integers, Sequences, FiniteSets, TLC

VARIABLES
    gen,            \* the activation of generateStoryboard: locals and position
    currentSource,  \* geminiService.ts:163, 0 stands for null
    sources,        \* the AudioBufferSourceNodes created so far
    pending,        \* playAudio calls suspended at their await (line 191)
    events,         \* what the Web Audio nodes and the callbacks have observed
    app,            \* the state of the App component, App.tsx:305-308
    display,        \* the state of the StoryboardDisplay component, App.tsx:256
    dec             \* one decoding of a PCM payload: decode and decodeAudioData

vars == <<gen, currentSource, sources, pending, events, app, display, dec>>

playVars == <<currentSource, sources, pending, events>>

compVars == <<app, display, dec>>

(***************************************************************************)
(* Bounds of the model.                                                    *)
(***************************************************************************)
MaxScenes == 3      \* scenes of an enumerated structure response
MaxClips == 2       \* clips per scene of an enumerated structure response
MaxSources == 3     \* playAudio calls in one behaviour
MaxSamples == 2     \* samples of an enumerated PCM payload
MaxCards == 2       \* clip cards of the displayed storyboard

(***************************************************************************)
(* The shape the story prompt asks for (geminiService.ts:48-49).           *)
(***************************************************************************)
NumScenes == 4
ClipsPerScene == 3

(***************************************************************************)
(* JavaScript values.  A base64 string is a pair <<tag, n>>; undefined and *)
(* the empty string are the two falsy strings the code can meet.           *)
(***************************************************************************)
Undefined == <<"undefined", 0>>
EmptyString == <<"", 0>>
NoNumber == -1      \* an integer field that is absent (undefined)

Falsy(v) == v = Undefined \/ v = EmptyString

RECURSIVE SeqsUpTo(_, _)
SeqsUpTo(S, n) ==
    IF n = 0 THEN {<<>>}
    ELSE LET shorter == SeqsUpTo(S, n - 1)
         IN  shorter \cup {Append(q, x) : q \in {r \in shorter : Len(r) = n - 1}, x \in S}

RECURSIVE SumSeq(_)
SumSeq(q) == IF q = <<>> THEN 0 ELSE Head(q) + SumSeq(Tail(q))

(***************************************************************************)
(* The structure response.  Its text either fails to parse or parses to a  *)
(* JSON value; the value is an array of scenes or something else.          *)
(***************************************************************************)
Numbering == {"asc", "desc", "dup"}

NumberOf(scheme, n, i) ==
    CASE scheme = "asc" -> i
      [] scheme = "desc" -> n + 1 - i
      [] OTHER -> 1

StructureClip(scheme, m, i, j) ==
    [clip |-> NumberOf(scheme, m, j),
     narration |-> <<"narration", 10 * i + j>>,
     prompt |-> <<"prompt", 10 * i + j>>]

StructureScene(scheme, n, i, m) ==
    [scene |-> NumberOf(scheme, n, i),
     hasClips |-> TRUE,
     clips |-> [j \in 1..m |-> StructureClip(scheme, m, i, j)]]

StructureOf(scheme, counts) ==
    [i \in 1..Len(counts) |-> StructureScene(scheme, Len(counts), i, counts[i])]

JsonArray(scenes) == [parses |-> TRUE, isArray |-> TRUE, scenes |-> scenes]

ConformingStructure == StructureOf("asc", [i \in 1..NumScenes |-> ClipsPerScene])

\* a scene object without its clips array, and a clip object without its fields
SceneWithoutClips == <<[scene |-> 1, hasClips |-> FALSE, clips |-> <<>>]>>
ClipWithoutFields ==
    <<[scene |-> 1, hasClips |-> TRUE,
       clips |-> <<[clip |-> NoNumber, narration |-> Undefined, prompt |-> Undefined]>>]>>

StructureTexts ==
    {[parses |-> FALSE, isArray |-> FALSE, scenes |-> <<>>],
     [parses |-> TRUE, isArray |-> FALSE, scenes |-> <<>>],
     JsonArray(ConformingStructure),
     JsonArray(SceneWithoutClips),
     JsonArray(ClipWithoutFields)}
    \cup {JsonArray(StructureOf(scheme, counts)) :
            scheme \in Numbering, counts \in SeqsUpTo(0..MaxClips, MaxScenes)}

(***************************************************************************)
(* Media responses: the parts of the first candidate ("?? []" makes a      *)
(* response without candidates the empty list of parts).                   *)
(***************************************************************************)
TextPart == [inlineData |-> FALSE, data |-> Undefined]
InlinePart(d) == [inlineData |-> TRUE, data |-> d]

\* the payload the backend produces for a request
PayloadOf(req) == <<IF req.kind = "image" THEN "png" ELSE "pcm", req.n>>

\* the responses of the backend to a request: no candidate, no inline part, an
\* inline part first or after a text part, an inline part without data or with
\* empty data before the payload
ResponsesTo(req) ==
    {<<>>,
     <<TextPart>>,
     <<InlinePart(PayloadOf(req))>>,
     <<TextPart, InlinePart(PayloadOf(req))>>,
     <<InlinePart(Undefined), InlinePart(PayloadOf(req))>>,
     <<InlinePart(EmptyString), InlinePart(PayloadOf(req))>>}

\* geminiService.ts:129-136
RECURSIVE findInlineData(_)
findInlineData(parts) ==
    IF parts = <<>> THEN Undefined
    ELSE IF Head(parts).inlineData THEN Head(parts).data
    ELSE findInlineData(Tail(parts))

DataUrl(b64) == <<"data:image/png;base64,", b64>>

(***************************************************************************)
(* Errors and progress messages.                                           *)
(***************************************************************************)
Err(name) == [name |-> name, clip |-> 0, scene |-> 0]
NoError == Err("none")
\* line 144
ClipError(clip, scene) == [name |-> "Gagal membuat konten", clip |-> clip, scene |-> scene]

MsgAnalyze == [e |-> "progress", m |-> "Menganalisis cerita dan karakter..."]
MsgVisuals == [e |-> "progress", m |-> "Membuat visual untuk setiap klip..."]
MsgDone == [e |-> "progress", m |-> "Selesai!"]
MsgClip(scene, clip, count, total) ==
    [e |-> "progress", m |-> "Membuat visual & audio", scene |-> scene, clip |-> clip,
     count |-> count, total |-> total]

StructureRequest == [kind |-> "structure", n |-> 0, text |-> <<"storyPrompt", 0>>]
ImageRequest(n, clip) == [kind |-> "image", n |-> n, text |-> clip.prompt]
AudioRequest(n, clip) == [kind |-> "audio", n |-> n, text |-> clip.narration]
Issued(req) == [e |-> "request", req |-> req]

(***************************************************************************)
(* generateStoryboard, one operator per stretch of synchronous code.       *)
(***************************************************************************)
GenInit ==
    [pc |-> "idle",
     parsed |-> FALSE,
     storyStructure |-> <<>>,
     finalStoryboard |-> <<>>,
     generatedClips |-> <<>>,
     clipCount |-> 0,
     totalClips |-> 0,
     sceneIdx |-> 1,
     clipIdx |-> 1,
     imageDone |-> FALSE,
     audioDone |-> FALSE,
     imageResponse |-> <<>>,
     audioResponse |-> <<>>,
     noPayload |-> {},
     outstanding |-> {},
     log |-> <<>>,
     calls |-> 0,
     error |-> NoError,
     returned |-> <<>>]

\* mutant of Throw: the completion message is reported from a finally block
ThrowThenDone(f, err) ==
    [f EXCEPT !.pc = "failed", !.error = err, !.log = Append(@, MsgDone),
              !.imageResponse = <<>>, !.audioResponse = <<>>]

\* a throw ends the activation: the responses it held are dropped with it
Throw(f, err) ==
    [f EXCEPT !.pc = "failed", !.error = err,
              !.imageResponse = <<>>, !.audioResponse = <<>>]

\* an invocation of the callback; the t-th invocation of the run throws
onProgress(f, msg, t) ==
    LET g == [f EXCEPT !.log = Append(@, msg), !.calls = @ + 1]
    IN  IF g.calls = t THEN Throw(g, Err("CallbackError")) ELSE g

Issue(f, req) ==
    [f EXCEPT !.outstanding = @ \cup {req}, !.log = Append(@, Issued(req))]

\* lines 156-157
Complete(f, t) ==
    LET g == onProgress(f, MsgDone, t)
    IN  IF g.pc = "failed" THEN g
        ELSE [g EXCEPT !.pc = "done", !.returned = g.finalStoryboard]

\* mutant of StartClip: the counter is incremented after the message is built
StartClipPostIncrement(f, scene, clip, t) ==
    LET n == f.clipCount + 1
        g == onProgress([f EXCEPT !.clipCount = n],
                        MsgClip(scene.scene, clip.clip, n - 1, f.totalClips), t)
    IN  IF g.pc = "failed" THEN g
        ELSE [Issue(Issue(g, ImageRequest(n, clip)), AudioRequest(n, clip))
                EXCEPT !.pc = "awaitMedia", !.imageDone = FALSE, !.audioDone = FALSE,
                       !.imageResponse = <<>>, !.audioResponse = <<>>, !.noPayload = {}]

\* mutant of StartClip: the image of the following clip is requested ahead
StartClipPrefetch(f, scene, clip, t) ==
    LET n == f.clipCount + 1
        g == onProgress([f EXCEPT !.clipCount = n],
                        MsgClip(scene.scene, clip.clip, n, f.totalClips), t)
    IN  IF g.pc = "failed" THEN g
        ELSE [Issue(Issue(Issue(g, ImageRequest(n, clip)), AudioRequest(n, clip)),
                    ImageRequest(n + 1, clip))
                EXCEPT !.pc = "awaitMedia", !.imageDone = FALSE, !.audioDone = FALSE,
                       !.imageResponse = <<>>, !.audioResponse = <<>>, !.noPayload = {}]

\* lines 98-127, up to the await
StartClip(f, scene, clip, t) ==
    LET n == f.clipCount + 1
        g == onProgress([f EXCEPT !.clipCount = n],
                        MsgClip(scene.scene, clip.clip, n, f.totalClips), t)
    IN  IF g.pc = "failed" THEN g
        ELSE [Issue(Issue(g, ImageRequest(n, clip)), AudioRequest(n, clip))
                EXCEPT !.pc = "awaitMedia", !.imageDone = FALSE, !.audioDone = FALSE,
                       !.imageResponse = <<>>, !.audioResponse = <<>>, !.noPayload = {}]

\* mutant of NextScene: generatedClips is declared outside the scene loop
NextSceneSharedClips(f) ==
    [f EXCEPT !.finalStoryboard =
                  Append(@, [scene |-> f.storyStructure[f.sceneIdx].scene,
                             clips |-> f.generatedClips]),
              !.sceneIdx = @ + 1,
              !.clipIdx = 1]

\* line 153 and the next iteration's line 96
NextScene(f) ==
    [f EXCEPT !.finalStoryboard =
                  Append(@, [scene |-> f.storyStructure[f.sceneIdx].scene,
                             clips |-> f.generatedClips]),
              !.generatedClips = <<>>,
              !.sceneIdx = @ + 1,
              !.clipIdx = 1]

\* mutant of Advance: the return statement is inside the scene loop
AdvanceReturnsInLoop(f, t) ==
    IF f.sceneIdx > Len(f.storyStructure) THEN Complete(f, t)
    ELSE LET scene == f.storyStructure[f.sceneIdx]
         IN  IF f.clipIdx > Len(scene.clips) THEN Complete(NextScene(f), t)
             ELSE StartClip(f, scene, scene.clips[f.clipIdx], t)

\* the two for loops, lines 95-154, run from (sceneIdx, clipIdx) to the next await
RECURSIVE Advance(_, _)
Advance(f, t) ==
    IF f.sceneIdx > Len(f.storyStructure) THEN Complete(f, t)
    ELSE LET scene == f.storyStructure[f.sceneIdx]
         IN  IF f.clipIdx > Len(scene.clips) THEN Advance(NextScene(f), t)
             ELSE StartClip(f, scene, scene.clips[f.clipIdx], t)

\* line 93; reduce throws on a value that is no array and on a scene without clips
CountClips(f, value) ==
    IF ~value.isArray \/ \E i \in 1..Len(value.scenes) : ~value.scenes[i].hasClips
    THEN Throw(f, Err("TypeError"))
    ELSE [f EXCEPT !.totalClips = SumSeq([i \in 1..Len(value.scenes) |->
                                             Len(value.scenes[i].clips)])]

\* lines 87-98: the continuation of the structure request
AfterStructure(f, text, t) ==
    IF ~text.parses THEN Throw(f, Err("SyntaxError"))
    ELSE LET g == onProgress([f EXCEPT !.parsed = TRUE, !.storyStructure = text.scenes],
                             MsgVisuals, t)
             h == IF g.pc = "failed" THEN g ELSE CountClips(g, text)
         IN  IF h.pc = "failed" THEN h ELSE Advance(h, t)

\* mutant of AttachMedia: the check fails only when both payloads are missing
AttachMediaBothMissing(f) ==
    LET scene == f.storyStructure[f.sceneIdx]
        clip == scene.clips[f.clipIdx]
        imageB64 == findInlineData(f.imageResponse)
        audioB64 == findInlineData(f.audioResponse)
    IN  IF Falsy(imageB64) /\ Falsy(audioB64)
        THEN Throw(f, ClipError(clip.clip, scene.scene))
        ELSE [f EXCEPT !.generatedClips =
                           Append(@, [clip |-> clip.clip, narration |-> clip.narration,
                                      prompt |-> clip.prompt,
                                      image |-> DataUrl(imageB64), audio |-> audioB64]),
                       !.clipIdx = @ + 1,
                       !.imageResponse = <<>>, !.audioResponse = <<>>]

\* mutant of AttachMedia: the two elements of the awaited pair are swapped
AttachMediaSwapped(f) ==
    LET scene == f.storyStructure[f.sceneIdx]
        clip == scene.clips[f.clipIdx]
        imageB64 == findInlineData(f.audioResponse)
        audioB64 == findInlineData(f.imageResponse)
    IN  IF Falsy(imageB64) \/ Falsy(audioB64)
        THEN Throw(f, ClipError(clip.clip, scene.scene))
        ELSE [f EXCEPT !.generatedClips =
                           Append(@, [clip |-> clip.clip, narration |-> clip.narration,
                                      prompt |-> clip.prompt,
                                      image |-> DataUrl(imageB64), audio |-> audioB64]),
                       !.clipIdx = @ + 1,
                       !.imageResponse = <<>>, !.audioResponse = <<>>]

\* lines 138-151
AttachMedia(f) ==
    LET scene == f.storyStructure[f.sceneIdx]
        clip == scene.clips[f.clipIdx]
        imageB64 == findInlineData(f.imageResponse)
        audioB64 == findInlineData(f.audioResponse)
    IN  IF Falsy(imageB64) \/ Falsy(audioB64)
        THEN Throw(f, ClipError(clip.clip, scene.scene))
        ELSE [f EXCEPT !.generatedClips =
                           Append(@, [clip |-> clip.clip, narration |-> clip.narration,
                                      prompt |-> clip.prompt,
                                      image |-> DataUrl(imageB64), audio |-> audioB64]),
                       !.clipIdx = @ + 1,
                       !.imageResponse = <<>>, !.audioResponse = <<>>]

\* a response arrives: which responses carried no payload is kept as history
Receive(f, req, resp) ==
    LET g == [f EXCEPT !.outstanding = @ \ {req},
                       !.noPayload = IF Falsy(findInlineData(resp))
                                     THEN @ \cup {req.kind} ELSE @]
    IN  IF req.kind = "image"
        THEN [g EXCEPT !.imageDone = TRUE, !.imageResponse = resp]
        ELSE [g EXCEPT !.audioDone = TRUE, !.audioResponse = resp]

\* mutant of Join: the clip goes on with the first response (Promise.race)
JoinOnFirstResponse(f, t) ==
    LET g == AttachMedia(f) IN IF g.pc = "failed" THEN g ELSE Advance(g, t)

\* line 127: Promise.all settles when both responses are in
Join(f, t) ==
    IF f.imageDone /\ f.audioDone
    THEN LET g == AttachMedia(f) IN IF g.pc = "failed" THEN g ELSE Advance(g, t)
    ELSE f

\* lines 34-57: from the call to the await of the structure request
Start(f, t) ==
    LET g == onProgress(f, MsgAnalyze, t)
    IN  IF g.pc = "failed" THEN g
        ELSE [Issue(g, StructureRequest) EXCEPT !.pc = "awaitStructure"]

\* which of the next k invocations of the callback throws, 0 for none
ThrowChoices(f, k) == {0} \cup {f.calls + i : i \in 1..k}

CurrentRequest(f, kind) ==
    CHOOSE req \in f.outstanding : req.kind = kind /\ req.n = f.clipCount

(***************************************************************************)
(* Actions of the pipeline.                                                *)
(***************************************************************************)
\* lines 30-57: the call, up to the await of the structure request
Call ==
    /\ gen.pc = "idle"
    /\ \E t \in ThrowChoices(gen, 1) : gen' = Start(gen, t)
    /\ UNCHANGED <<playVars, compVars>>

StructureFulfil ==
    /\ gen.pc = "awaitStructure"
    /\ \E text \in StructureTexts, t \in ThrowChoices(gen, 2) :
         gen' = AfterStructure([gen EXCEPT !.outstanding = @ \ {StructureRequest}], text, t)
    /\ UNCHANGED <<playVars, compVars>>

StructureReject ==
    /\ gen.pc = "awaitStructure"
    /\ gen' = Throw([gen EXCEPT !.outstanding = @ \ {StructureRequest}],
                    Err("StructureRejected"))
    /\ UNCHANGED <<playVars, compVars>>

ImageFulfil ==
    /\ gen.pc = "awaitMedia"
    /\ ~gen.imageDone
    /\ LET req == CurrentRequest(gen, "image")
       IN  \E resp \in ResponsesTo(req), t \in ThrowChoices(gen, 1) :
             gen' = Join(Receive(gen, req, resp), t)
    /\ UNCHANGED <<playVars, compVars>>

AudioFulfil ==
    /\ gen.pc = "awaitMedia"
    /\ ~gen.audioDone
    /\ LET req == CurrentRequest(gen, "audio")
       IN  \E resp \in ResponsesTo(req), t \in ThrowChoices(gen, 1) :
             gen' = Join(Receive(gen, req, resp), t)
    /\ UNCHANGED <<playVars, compVars>>

\* Promise.all rejects with the first rejection, the other request stays in flight
ImageReject ==
    /\ gen.pc = "awaitMedia"
    /\ ~gen.imageDone
    /\ gen' = Throw([gen EXCEPT !.outstanding = @ \ {CurrentRequest(gen, "image")}],
                    Err("ImageRejected"))
    /\ UNCHANGED <<playVars, compVars>>

AudioReject ==
    /\ gen.pc = "awaitMedia"
    /\ ~gen.audioDone
    /\ gen' = Throw([gen EXCEPT !.outstanding = @ \ {CurrentRequest(gen, "audio")}],
                    Err("AudioRejected"))
    /\ UNCHANGED <<playVars, compVars>>

\* a request still in flight when the run has failed settles unobserved
LateSettle ==
    /\ gen.pc = "failed"
    /\ \E req \in gen.outstanding : gen' = [gen EXCEPT !.outstanding = @ \ {req}]
    /\ UNCHANGED <<playVars, compVars>>

(***************************************************************************)
(* The components of App.tsx and the decoding of a payload, at rest.       *)
(***************************************************************************)
NoMessage == [e |-> "progress", m |-> ""]
NoStoryboard == [isNull |-> TRUE, scenes |-> <<>>]
NoAppError == [isNull |-> TRUE, err |-> NoError]

\* App.tsx:305-308; retry records whether the run in hand follows a failed one
AppInit ==
    [isLoading |-> FALSE,
     progressMessage |-> NoMessage,
     error |-> NoAppError,
     storyboard |-> NoStoryboard,
     retry |-> FALSE]

\* App.tsx:256; audio is the audio of every clip card and clipOf records the clip
\* of every playAudio call
DisplayInit == [mounted |-> FALSE, playingClipId |-> 0, audio |-> <<>>, clipOf |-> <<>>]

DecInit ==
    [pc |-> "idle", samples |-> <<>>, payload |-> <<>>, base64 |-> <<>>,
     rawAudio |-> <<>>, channelData |-> <<>>, error |-> "none"]

CompInit ==
    /\ app = AppInit
    /\ display = DisplayInit
    /\ dec = DecInit

PlayInit ==
    /\ currentSource = 0
    /\ sources = <<>>
    /\ pending = <<>>
    /\ events = <<>>

InitPipeline == gen = GenInit /\ PlayInit /\ CompInit

NextPipeline ==
    \/ Call
    \/ StructureFulfil
    \/ StructureReject
    \/ ImageFulfil
    \/ AudioFulfil
    \/ ImageReject
    \/ AudioReject
    \/ LateSettle

SpecPipeline == InitPipeline /\ [][NextPipeline]_vars

\* every remote request is eventually fulfilled or rejected, and the continuation
\* of the await then runs
SpecPipelineFair ==
    /\ InitPipeline
    /\ [][NextPipeline]_vars
    /\ WF_vars(StructureFulfil \/ StructureReject)
    /\ WF_vars(ImageFulfil \/ ImageReject)
    /\ WF_vars(AudioFulfil \/ AudioReject)

(***************************************************************************)
(* The audio player, geminiService.ts:161-210.  A source is named by the   *)
(* number of the playAudio call that creates it.                           *)
(*   suspended  the call is at its await (line 191)                        *)
(*   rejected   the call threw while decoding                              *)
(*   playing    start() was called, the buffer is being played             *)
(*   finished   the buffer was played to its end, ended not yet dispatched *)
(*   stopped    stop() cut the playback, ended not yet dispatched          *)
(*   ended      the ended event was dispatched to source.onended           *)
(***************************************************************************)
Audios ==
    {[valid |-> FALSE, bytes |-> <<>>],         \* not base64: atob throws
     [valid |-> TRUE, bytes |-> <<0, 64>>],     \* one 16-bit sample
     [valid |-> TRUE, bytes |-> <<0, 64, 1>>]}  \* odd length: new Int16Array throws

Playing == {s \in 1..Len(sources) : sources[s].state = "playing"}

Player == [currentSource |-> currentSource, sources |-> sources, events |-> events]

\* AudioScheduledSourceNode.stop(): a playing source stops, the call is observed
stop(p, s) ==
    [p EXCEPT !.sources[s].state = IF @ = "playing" THEN "stopped" ELSE @,
              !.sources[s].how = IF p.sources[s].state = "playing" THEN "stop" ELSE @,
              !.events = Append(@, [e |-> "stop", s |-> s])]

disconnect(p, s) == [p EXCEPT !.events = Append(@, [e |-> "disconnect", s |-> s])]

\* mutant of stopAudio: the handler of the stopped source is removed
stopAudioDetach(p) ==
    IF p.currentSource # 0
    THEN [disconnect(stop(p, p.currentSource), p.currentSource)
            EXCEPT !.currentSource = 0, !.sources[p.currentSource].onended = FALSE]
    ELSE p

\* mutant of stopAudio: the handle is not cleared after the stop
stopAudioKeepsHandle(p) ==
    IF p.currentSource # 0
    THEN disconnect(stop(p, p.currentSource), p.currentSource)
    ELSE p

\* lines 204-210
stopAudio(p) ==
    IF p.currentSource # 0
    THEN [disconnect(stop(p, p.currentSource), p.currentSource) EXCEPT !.currentSource = 0]
    ELSE p

\* lines 193-201: the rest of playAudio after its await
startSource(p, s) ==
    LET q == [p EXCEPT !.sources[s].onended = TRUE,
                       !.sources[s].state = "playing",
                       !.events = Append(@, [e |-> "start", s |-> s]),
                       !.currentSource = s]
    IN  [q EXCEPT !.events = Append(@, [e |-> "resolved", s |-> s,
                                        current |-> q.currentSource])]

\* lines 196-199: source.onended
onended(p, s) ==
    [p EXCEPT !.currentSource = 0,
              !.events = Append(@, [e |-> "onEnded", s |-> s])]

\* the ended event of a source is dispatched to its handler, if it has one
dispatchEnded(p, s) ==
    LET q == [p EXCEPT !.sources[s].state = "ended"]
    IN  IF q.sources[s].onended THEN onended(q, s) ELSE q

SetPlayer(p) ==
    /\ currentSource' = p.currentSource
    /\ sources' = p.sources
    /\ events' = p.events

\* lines 187-191: stopAudio, decode, and the call of decodeAudioData, whose body
\* (lines 176-183) runs before playAudio suspends
playAudio(audio) ==
    LET s == Len(sources) + 1
        p == stopAudio(Player)
        new == [state |-> IF audio.valid THEN "suspended" ELSE "rejected",
                how |-> "none",
                onended |-> FALSE,
                decoded |-> Len(audio.bytes) % 2 = 0,
                playingAtCall |-> Playing]
    IN  /\ SetPlayer([p EXCEPT !.sources = Append(@, new)])
        /\ pending' = IF audio.valid THEN Append(pending, s) ELSE pending

PlayAudioCall ==
    /\ Len(sources) < MaxSources
    /\ \E audio \in Audios : playAudio(audio)
    /\ UNCHANGED <<gen, compVars>>

\* the continuation of the oldest suspended call
PlayAudioResume ==
    /\ pending # <<>>
    /\ LET s == Head(pending)
       IN  IF sources[s].decoded
           THEN SetPlayer(startSource(Player, s))
           ELSE SetPlayer([Player EXCEPT !.sources[s].state = "rejected"])
    /\ pending' = Tail(pending)
    /\ UNCHANGED <<gen, compVars>>

StopAudioCall ==
    /\ SetPlayer(stopAudio(Player))
    /\ UNCHANGED <<gen, pending, compVars>>

\* the playback reaches the end of the buffer
SourceFinishes ==
    /\ \E s \in Playing :
         sources' = [sources EXCEPT ![s].state = "finished", ![s].how = "natural"]
    /\ UNCHANGED <<gen, currentSource, pending, events, compVars>>

\* the ended event of a source that no longer plays is dispatched, as a task of
\* its own: no playAudio call is suspended at that moment
SourceEnded ==
    /\ pending = <<>>
    /\ \E s \in 1..Len(sources) :
         /\ sources[s].state \in {"finished", "stopped"}
         /\ SetPlayer(dispatchEnded(Player, s))
    /\ UNCHANGED <<gen, pending, compVars>>

InitPlayback == gen = GenInit /\ PlayInit /\ CompInit

NextPlayback ==
    \/ PlayAudioCall
    \/ PlayAudioResume
    \/ StopAudioCall
    \/ SourceFinishes
    \/ SourceEnded

SpecPlayback == InitPlayback /\ [][NextPlayback]_vars


(***************************************************************************)
(* The App component, App.tsx:304-331 and 347-360.  generateStoryboard is  *)
(* called with setProgressMessage, which does not throw.                   *)
(***************************************************************************)
\* line 321
AppError(err) == [isNull |-> FALSE, err |-> err]

\* the message of the last invocation of setProgressMessage
RECURSIVE LastProgress(_, _)
LastProgress(log, none) ==
    IF log = <<>> THEN none
    ELSE IF log[Len(log)].e = "progress" THEN log[Len(log)]
    ELSE LastProgress(SubSeq(log, 1, Len(log) - 1), none)

\* mutant of NewRun: the scenes finished by a failed run are kept as a checkpoint
NewRunFromCheckpoint(f) ==
    IF f.pc = "failed" THEN [GenInit EXCEPT !.finalStoryboard = f.finalStoryboard]
    ELSE GenInit

\* a call of generateStoryboard creates its locals anew (lines 91-93 and 96)
NewRun(f) == GenInit

\* mutant of handleGenerate: the error of the run before is not cleared
handleGenerateKeepsError(a, failedBefore) ==
    [a EXCEPT !.isLoading = TRUE, !.storyboard = NoStoryboard, !.retry = failedBefore]

\* lines 311-313 of handleGenerate
handleGenerate(a, failedBefore) ==
    [a EXCEPT !.isLoading = TRUE, !.error = NoAppError, !.storyboard = NoStoryboard,
              !.retry = failedBefore]

\* mutant of Resume: isLoading and the message are reset in the try block only
ResumeWithoutFinally(a, g) ==
    LET b == [a EXCEPT !.progressMessage = LastProgress(g.log, @)]
    IN  CASE g.pc = "done" ->
                 [b EXCEPT !.storyboard = [isNull |-> FALSE, scenes |-> g.returned],
                           !.isLoading = FALSE, !.progressMessage = NoMessage]
          [] g.pc = "failed" -> [b EXCEPT !.error = AppError(g.error)]
          [] OTHER -> b

\* lines 315-324 of handleGenerate: what the run g has made of the App state a
Resume(a, g) ==
    LET b == [a EXCEPT !.progressMessage = LastProgress(g.log, @)]
    IN  CASE g.pc = "done" ->
                 [b EXCEPT !.storyboard = [isNull |-> FALSE, scenes |-> g.returned],
                           !.isLoading = FALSE, !.progressMessage = NoMessage]
          [] g.pc = "failed" ->
                 [b EXCEPT !.error = AppError(g.error),
                           !.isLoading = FALSE, !.progressMessage = NoMessage]
          [] OTHER -> b

\* lines 327-331
handleReset(a) ==
    [a EXCEPT !.storyboard = NoStoryboard, !.error = NoAppError, !.isLoading = FALSE]

RunStep(g) ==
    /\ gen' = g
    /\ app' = Resume(app, g)
    /\ UNCHANGED <<playVars, display, dec>>

\* App.tsx:116-123 and 197: the form is rendered while there is no storyboard and
\* its button is enabled while isLoading is false; an incomplete form is refused
HandleSubmit ==
    /\ app.storyboard.isNull
    /\ ~app.isLoading
    /\ \E filled \in BOOLEAN :
         IF filled
         THEN LET g == Start(NewRun(gen), 0)
              IN  /\ gen' = g
                  /\ app' = Resume(handleGenerate(app, gen.pc = "failed"), g)
         ELSE UNCHANGED <<gen, app>>
    /\ UNCHANGED <<playVars, display, dec>>

AppStructureFulfil ==
    /\ gen.pc = "awaitStructure"
    /\ \E text \in StructureTexts :
         RunStep(AfterStructure([gen EXCEPT !.outstanding = @ \ {StructureRequest}], text, 0))

AppStructureReject ==
    /\ gen.pc = "awaitStructure"
    /\ RunStep(Throw([gen EXCEPT !.outstanding = @ \ {StructureRequest}],
                     Err("StructureRejected")))

AppImageFulfil ==
    /\ gen.pc = "awaitMedia"
    /\ ~gen.imageDone
    /\ LET req == CurrentRequest(gen, "image")
       IN  \E resp \in ResponsesTo(req) : RunStep(Join(Receive(gen, req, resp), 0))

AppAudioFulfil ==
    /\ gen.pc = "awaitMedia"
    /\ ~gen.audioDone
    /\ LET req == CurrentRequest(gen, "audio")
       IN  \E resp \in ResponsesTo(req) : RunStep(Join(Receive(gen, req, resp), 0))

AppImageReject ==
    /\ gen.pc = "awaitMedia"
    /\ ~gen.imageDone
    /\ RunStep(Throw([gen EXCEPT !.outstanding = @ \ {CurrentRequest(gen, "image")}],
                     Err("ImageRejected")))

AppAudioReject ==
    /\ gen.pc = "awaitMedia"
    /\ ~gen.audioDone
    /\ RunStep(Throw([gen EXCEPT !.outstanding = @ \ {CurrentRequest(gen, "audio")}],
                     Err("AudioRejected")))

\* the "Buat Baru" button of the storyboard display, rendered by line 358
HandleReset ==
    /\ ~app.storyboard.isNull
    /\ ~app.isLoading
    /\ app' = handleReset(app)
    /\ UNCHANGED <<gen, playVars, display, dec>>

\* the "Coba lagi" button of the error box, lines 347-351
DismissError ==
    /\ ~app.error.isNull
    /\ app' = [app EXCEPT !.error = NoAppError]
    /\ UNCHANGED <<gen, playVars, display, dec>>

InitApp == gen = GenInit /\ PlayInit /\ CompInit

NextApp ==
    \/ HandleSubmit
    \/ AppStructureFulfil
    \/ AppStructureReject
    \/ AppImageFulfil
    \/ AppAudioFulfil
    \/ AppImageReject
    \/ AppAudioReject
    \/ LateSettle
    \/ HandleReset
    \/ DismissError

SpecApp == InitApp /\ [][NextApp]_vars


(***************************************************************************)
(* Decoding of a PCM payload, geminiService.ts:20-28 and 172-184.  A       *)
(* base64 string is the sequence of its 6-bit digits, 64 stands for "=".   *)
(* A float is the exact ratio num/den: a 16-bit integer over 32768 has 16  *)
(* significant bits and is stored in a Float32Array without rounding.      *)
(***************************************************************************)
Scale == 32768

Pad == 64

\* the payloads of the backend: signed 16-bit samples, low byte first
SampleValues == {-32768, -256, -1, 0, 1, 255, 256, 32767}

BytesOfSample(v) ==
    LET u == (v + 65536) % 65536 IN <<u % 256, u \div 256>>

RECURSIVE BytesOfSamples(_)
BytesOfSamples(q) ==
    IF q = <<>> THEN <<>> ELSE BytesOfSample(Head(q)) \o BytesOfSamples(Tail(q))

\* the base64 text of a byte string, as the backend encodes its inline data
RECURSIVE Btoa(_)
Btoa(b) ==
    CASE Len(b) = 0 -> <<>>
      [] Len(b) = 1 ->
           LET n == b[1] * 65536
           IN  <<n \div 262144, (n \div 4096) % 64, Pad, Pad>>
      [] Len(b) = 2 ->
           LET n == b[1] * 65536 + b[2] * 256
           IN  <<n \div 262144, (n \div 4096) % 64, (n \div 64) % 64, Pad>>
      [] OTHER ->
           LET n == b[1] * 65536 + b[2] * 256 + b[3]
           IN  <<n \div 262144, (n \div 4096) % 64, (n \div 64) % 64, n % 64>>
               \o Btoa(SubSeq(b, 4, Len(b)))

\* window.atob: every four digits give three characters, less one per "="
RECURSIVE atob(_)
atob(c) ==
    IF Len(c) < 4 THEN <<>>
    ELSE LET d(i) == IF c[i] = Pad THEN 0 ELSE c[i]
             n == d(1) * 262144 + d(2) * 4096 + d(3) * 64 + d(4)
             pads == Cardinality({i \in 3..4 : c[i] = Pad})
             three == <<n \div 65536, (n \div 256) % 256, n % 256>>
         IN  SubSeq(three, 1, 3 - pads) \o atob(SubSeq(c, 5, Len(c)))

\* lines 20-28: the char codes of the binary string, stored in a Uint8Array
decode(base64) ==
    LET binaryString == atob(base64)
    IN  [i \in 1..Len(binaryString) |-> binaryString[i] % 256]

\* mutant of Int16At: the bytes are viewed through a Uint16Array
Uint16At(data, i) == data[2 * i - 1] + 256 * data[2 * i]

\* line 176: element i of the Int16Array over the bytes, in the byte order of the
\* platform, which is little-endian wherever the Web Audio API runs
Int16At(data, i) ==
    LET u == data[2 * i - 1] + 256 * data[2 * i]
    IN  IF u >= 32768 THEN u - 65536 ELSE u

\* lines 177-183
decodeAudioData(data) ==
    LET frameCount == Len(data) \div 2
    IN  [i \in 1..frameCount |-> [num |-> Int16At(data, i), den |-> Scale]]

\* a payload of the backend; extra appends a byte that completes no sample
Decoding(samples, extra) ==
    LET bytes == BytesOfSamples(samples) \o extra
    IN  [DecInit EXCEPT !.samples = samples, !.payload = bytes, !.base64 = Btoa(bytes)]

\* line 190
DecodeCall ==
    /\ dec.pc = "idle"
    /\ dec' = [dec EXCEPT !.pc = "decoded", !.rawAudio = decode(dec.base64)]
    /\ UNCHANGED <<gen, playVars, app, display>>

\* line 191; new Int16Array throws a RangeError on an odd number of bytes
DecodeAudioDataCall ==
    /\ dec.pc = "decoded"
    /\ dec' = IF Len(dec.rawAudio) % 2 # 0
              THEN [dec EXCEPT !.pc = "failed", !.error = "RangeError"]
              ELSE [dec EXCEPT !.pc = "buffered",
                               !.channelData = decodeAudioData(dec.rawAudio)]
    /\ UNCHANGED <<gen, playVars, app, display>>

InitDecode ==
    /\ gen = GenInit
    /\ PlayInit
    /\ app = AppInit
    /\ display = DisplayInit
    /\ dec \in {Decoding(samples, extra) :
                  samples \in SeqsUpTo(SampleValues, MaxSamples),
                  extra \in {<<>>, <<1>>}}

NextDecode ==
    \/ DecodeCall
    \/ DecodeAudioDataCall

SpecDecode == InitDecode /\ [][NextDecode]_vars


(***************************************************************************)
(* The StoryboardDisplay component with its clip cards, App.tsx:204-302,   *)
(* over the audio player.  A click is a task of its own: it runs when no   *)
(* playAudio call is suspended.  Clip cards are named 1..MaxCards.         *)
(***************************************************************************)
\* App.tsx:258-261: handlePlayAudio of the card c, from the play button (line 236)
ClickPlay ==
    /\ display.mounted
    /\ pending = <<>>
    /\ Len(sources) < MaxSources
    /\ \E c \in 1..MaxCards :
         /\ display.playingClipId # c
         /\ playAudio(display.audio[c])
         /\ display' = [display EXCEPT !.playingClipId = c, !.clipOf = Append(@, c)]
    /\ UNCHANGED <<gen, app, dec>>

\* App.tsx:236: the button of the card whose isPlaying is true calls stopAudio
ClickPause ==
    /\ display.mounted
    /\ pending = <<>>
    /\ display.playingClipId # 0
    /\ SetPlayer(stopAudio(Player))
    /\ UNCHANGED <<gen, pending, app, display, dec>>

\* the ended event of a source: the handler of geminiService.ts:196-199 and the
\* callback of App.tsx:259, which sets the state of a mounted component
DisplayEnded ==
    /\ pending = <<>>
    /\ \E s \in 1..Len(sources) :
         /\ sources[s].state \in {"finished", "stopped"}
         /\ SetPlayer(dispatchEnded(Player, s))
         /\ display' = IF sources[s].onended /\ display.mounted
                       THEN [display EXCEPT !.playingClipId = 0]
                       ELSE display
    /\ UNCHANGED <<gen, pending, app, dec>>

\* App.tsx:263-267: the cleanup of the effect when the component is unmounted
Unmount ==
    /\ display.mounted
    /\ pending = <<>>
    /\ SetPlayer(stopAudio(Player))
    /\ display' = [display EXCEPT !.mounted = FALSE, !.playingClipId = 0]
    /\ UNCHANGED <<gen, pending, app, dec>>

InitDisplay ==
    /\ gen = GenInit
    /\ PlayInit
    /\ app = AppInit
    /\ dec = DecInit
    /\ display \in {[DisplayInit EXCEPT !.mounted = TRUE, !.audio = a] :
                      a \in [1..MaxCards -> Audios]}

NextDisplay ==
    \/ ClickPlay
    \/ ClickPause
    \/ PlayAudioResume
    \/ SourceFinishes
    \/ DisplayEnded
    \/ Unmount

SpecDisplay == InitDisplay /\ [][NextDisplay]_vars


(***************************************************************************)
(* Properties of the pipeline, checked under SpecPipeline.                 *)
(***************************************************************************)
Log == gen.log

ProgressAt(m) == {i \in 1..Len(Log) : Log[i].e = "progress" /\ Log[i].m = m}
RequestAt(kind) == {i \in 1..Len(Log) : Log[i].e = "request" /\ Log[i].req.kind = kind}
MediaRequestAt == RequestAt("image") \cup RequestAt("audio")
ClipProgressAt == ProgressAt("Membuat visual & audio")

MediaOutstanding == {r \in gen.outstanding : r.kind # "structure"}

\* the clips of a structure in scene-major, clip-minor order
RECURSIVE ClipsInOrder(_)
ClipsInOrder(scenes) ==
    IF scenes = <<>> THEN <<>>
    ELSE [j \in 1..Len(Head(scenes).clips) |->
             [scene |-> Head(scenes).scene, clip |-> Head(scenes).clips[j]]]
         \o ClipsInOrder(Tail(scenes))

ShapeOf(board) ==
    [i \in 1..Len(board) |->
        [scene |-> board[i].scene,
         clips |-> [j \in 1..Len(board[i].clips) |-> board[i].clips[j].clip]]]

Conforms(scenes) ==
    /\ Len(scenes) = NumScenes
    /\ \A i \in 1..Len(scenes) :
         /\ scenes[i].hasClips
         /\ Len(scenes[i].clips) = ClipsPerScene
         /\ \A j \in 1..Len(scenes[i].clips) :
              /\ scenes[i].clips[j].clip # NoNumber
              /\ scenes[i].clips[j].narration # Undefined
              /\ scenes[i].clips[j].prompt # Undefined

\* the failures of a stage: the structure request, its decoding, a media request,
\* a missing payload
StageFailed ==
    /\ gen.pc = "failed"
    /\ gen.error.name \in {"StructureRejected", "SyntaxError", "TypeError",
                           "ImageRejected", "AudioRejected", "Gagal membuat konten"}

\* C1: whenever generateStoryboard succeeds, the returned storyboard has the scene
\* numbers of the structure in the same order and, in every scene, the clip
\* numbers of the structure in the same order, whatever the shape of the structure.
C1_ShapePreserved ==
    gen.pc = "done" => ShapeOf(gen.returned) = ShapeOf(gen.storyStructure)

\* a run that succeeded on a structure with an empty scene, a scene of several
\* clips and scene numbers that are not the positions
C1_Witness ==
    /\ gen.pc = "done"
    /\ Len(gen.returned) >= 2
    /\ gen.returned[1].scene # 1
    /\ \E i \in 1..Len(gen.returned) : Len(gen.returned[i].clips) = 0
    /\ \E i \in 1..Len(gen.returned) : Len(gen.returned[i].clips) >= 2

\* C2, as claimed: once the run has left the await of a clip for which a response
\* without inline payload was received, it has failed with the error naming that
\* clip and scene, and nothing is returned.
C2_MissingPayloadFails ==
    (gen.pc # "awaitMedia" /\ gen.noPayload # {}) =>
        /\ gen.pc = "failed"
        /\ gen.error = ClipError(gen.storyStructure[gen.sceneIdx].clips[gen.clipIdx].clip,
                                 gen.storyStructure[gen.sceneIdx].scene)
        /\ gen.returned = <<>>

\* C2, amended: when both responses of a clip were received and one of them
\* carries no inline payload, the run has failed with the error naming that clip
\* and scene, and nothing is returned.
C2_MissingPayloadFailsWhenBothArrive ==
    (gen.imageDone /\ gen.audioDone /\ gen.noPayload # {}) =>
        /\ gen.pc = "failed"
        /\ gen.error = ClipError(gen.storyStructure[gen.sceneIdx].clips[gen.clipIdx].clip,
                                 gen.storyStructure[gen.sceneIdx].scene)
        /\ gen.returned = <<>>

\* the image payload of clip 3 of scene 2 is missing, after scene 1 and two clips
\* of scene 2 were completed
C2_Witness ==
    /\ gen.pc = "failed"
    /\ gen.error = ClipError(3, 2)
    /\ gen.noPayload = {"image"}
    /\ gen.imageDone /\ gen.audioDone
    /\ Len(gen.finalStoryboard) = 1
    /\ Len(gen.generatedClips) = 2

\* C3, as claimed: a decoded structure that is not 4 scenes of 3 clips with all
\* fields makes the run fail with a decode error (or with the error of a throwing
\* callback) and no image or audio request is ever issued for it.
C3_NonConformingStructureFails ==
    (gen.parsed /\ ~Conforms(gen.storyStructure)) =>
        /\ gen.pc = "failed"
        /\ gen.error.name \in {"SyntaxError", "TypeError", "CallbackError"}
        /\ MediaRequestAt = {}

\* C4, as claimed: a throwing callback does not change the outcome, so no run
\* ends with the callback's exception as its failure.
C4_CallbackFailureIgnored ==
    ~(gen.pc = "failed" /\ gen.error = Err("CallbackError"))

\* C5: the first invocation of onProgress precedes the structure request; once the
\* structure is decoded the second one follows, before any media request; the
\* k-th per-clip invocation carries the counter k and the total number of clips,
\* and precedes the image and the audio request of the k-th clip; a successful run
\* has made exactly as many per-clip invocations as the structure has clips.
C5_ProgressOrdering ==
    LET C == Len(ClipsInOrder(gen.storyStructure))
    IN  /\ Log # <<>> => ProgressAt(MsgAnalyze.m) = {1}
        /\ RequestAt("structure") \subseteq {2}
        /\ ProgressAt(MsgVisuals.m) = IF gen.parsed THEN {3} ELSE {}
        /\ \A j \in MediaRequestAt :
             /\ j > 3
             /\ \E i \in ClipProgressAt : i < j /\ Log[i].count = Log[j].req.n
        /\ \A i \in ClipProgressAt :
             /\ i > 3
             /\ Log[i].count = Cardinality({h \in ClipProgressAt : h <= i})
             /\ Log[i].total = C
             /\ \A j \in MediaRequestAt : Log[j].req.n = Log[i].count => i < j
        /\ gen.pc = "done" => Cardinality(ClipProgressAt) = C

\* the successful run on the structure of 4 scenes of 3 clips
C5_Witness ==
    /\ gen.pc = "done"
    /\ gen.clipCount = NumScenes * ClipsPerScene
    /\ Cardinality(ClipProgressAt) = NumScenes * ClipsPerScene

\* C6: all outstanding media requests belong to the clip started last, at most one
\* image and one audio request; none is outstanding together with the structure
\* request; and the k-th image and audio requests issued are those of the k-th
\* clip in scene-major, clip-minor order.
C6_OneClipAtATime ==
    /\ \A r \in MediaOutstanding : r.n = gen.clipCount
    /\ \A r1, r2 \in MediaOutstanding : r1.kind = r2.kind => r1 = r2
    /\ StructureRequest \in gen.outstanding => MediaOutstanding = {}
    /\ \A j \in RequestAt("image") :
         LET k == Cardinality({h \in RequestAt("image") : h <= j})
         IN  Log[j].req = ImageRequest(k, ClipsInOrder(gen.storyStructure)[k].clip)
    /\ \A j \in RequestAt("audio") :
         LET k == Cardinality({h \in RequestAt("audio") : h <= j})
         IN  Log[j].req = AudioRequest(k, ClipsInOrder(gen.storyStructure)[k].clip)

\* the image of the second clip has arrived, its audio request is outstanding and
\* the third clip has not been started
C6_Witness ==
    /\ gen.pc = "awaitMedia"
    /\ gen.clipCount = 2
    /\ gen.totalClips > 2
    /\ gen.imageDone
    /\ Cardinality(MediaOutstanding) = 1

\* C7: a run that has failed stays failed, issues no request and reports no
\* message any more; and after the failure of a stage the completion message has
\* not been reported and no request was issued for a clip after the failing one.
C7_NothingAfterFailure ==
    /\ [](StageFailed =>
            /\ ProgressAt(MsgDone.m) = {}
            /\ \A j \in MediaRequestAt : Log[j].req.n <= gen.clipCount
            /\ Cardinality(MediaRequestAt) = 2 * gen.clipCount)
    /\ [][gen.pc = "failed" =>
            /\ gen'.pc = "failed"
            /\ gen'.error = gen.error
            /\ gen'.log = gen.log
            /\ gen'.outstanding \subseteq gen.outstanding]_vars

\* the image request of a clip was rejected, the audio request settled later, and
\* the clips after it were never requested
C7_Witness ==
    /\ gen.pc = "failed"
    /\ gen.error = Err("ImageRejected")
    /\ gen.outstanding = {}
    /\ gen.clipCount >= 2
    /\ gen.clipCount < gen.totalClips
    /\ Cardinality(MediaRequestAt) = 2 * gen.clipCount


\* the requests issued so far that ask for the image or the audio of the k-th clip
RequestsFor(kind, k) == {j \in RequestAt(kind) : Log[j].req.n = k}

Settled == gen.pc \in {"done", "failed"}

\* C12: provided every request is eventually fulfilled or rejected, a run that was
\* started eventually returns a storyboard or fails; it never does both, and once
\* settled its outcome never changes; and when it returns, the image and the audio
\* request of every clip of the structure were issued and have been answered.
C12_SettlesExactlyOnce ==
    /\ (gen.pc # "idle") ~> Settled
    /\ [](gen.pc = "done" =>
            /\ gen.error = NoError
            /\ gen.outstanding = {}
            /\ \A k \in 1..Len(ClipsInOrder(gen.storyStructure)) :
                 RequestsFor("image", k) # {} /\ RequestsFor("audio", k) # {})
    /\ [](gen.pc = "failed" => gen.returned = <<>> /\ gen.error # NoError)
    /\ [][Settled =>
            /\ gen'.pc = gen.pc
            /\ gen'.returned = gen.returned
            /\ gen'.error = gen.error]_vars

\* a run has returned the storyboard of a structure of several scenes with clips,
\* after all its requests were answered
C12_Witness ==
    /\ gen.pc = "done"
    /\ gen.outstanding = {}
    /\ Len(gen.returned) >= 2
    /\ \A i \in 1..Len(gen.returned) : Len(gen.returned[i].clips) >= 1

\* C13, as claimed: a run that was started has issued the structure request
\* exactly once, the image and the audio request of a clip at most once, and a
\* run that failed on a rejected request carries the error of that request.
C13_NoRequestRetried ==
    /\ gen.pc # "idle" => Cardinality(RequestAt("structure")) = 1
    /\ \A k \in 1..gen.clipCount :
         /\ Cardinality(RequestsFor("image", k)) <= 1
         /\ Cardinality(RequestsFor("audio", k)) <= 1
    /\ \A j \in MediaRequestAt : Log[j].req.n \in 1..gen.clipCount
    /\ (gen.pc = "failed" /\ gen.error.name = "StructureRejected") =>
         RequestAt("structure") # {} /\ ~gen.parsed
    /\ (gen.pc = "failed" /\ gen.error.name = "ImageRejected") =>
         RequestsFor("image", gen.clipCount) # {} /\ ~gen.imageDone
    /\ (gen.pc = "failed" /\ gen.error.name = "AudioRejected") =>
         RequestsFor("audio", gen.clipCount) # {} /\ ~gen.audioDone


\* the clips completed so far: those of the finished scenes and of the current one
Completed == Len(ClipsInOrder(gen.finalStoryboard)) + Len(gen.generatedClips)

\* C16: the image and the audio request of a clip are issued one after the other,
\* before any of the two responses is taken; while one of the two responses is
\* missing the clip is not completed, whichever arrived first, and the payload
\* check does not run; and when one request is rejected while the other is
\* outstanding the run fails without a request for any later clip.
C16_BothIssuedThenJoined ==
    /\ \A j \in RequestAt("image") :
         /\ j < Len(Log)
         /\ Log[j + 1].e = "request"
         /\ Log[j + 1].req.kind = "audio"
         /\ Log[j + 1].req.n = Log[j].req.n
    /\ (gen.pc = "awaitMedia" /\ ~gen.imageDone /\ ~gen.audioDone) =>
         Cardinality({r \in MediaOutstanding : r.n = gen.clipCount}) = 2
    /\ gen.pc = "awaitMedia" =>
         /\ ~(gen.imageDone /\ gen.audioDone)
         /\ Completed = gen.clipCount - 1
    /\ Completed <= gen.clipCount
    /\ (gen.pc = "failed" /\ gen.error.name = "Gagal membuat konten") =>
         gen.imageDone /\ gen.audioDone
    /\ (gen.pc = "failed" /\ gen.error.name \in {"ImageRejected", "AudioRejected"}) =>
         /\ Completed = gen.clipCount - 1
         /\ Cardinality(MediaRequestAt) = 2 * gen.clipCount
         /\ \A j \in MediaRequestAt : Log[j].req.n <= gen.clipCount

\* the audio request of the first clip was rejected while its image request is
\* still outstanding, and the clips after it were not started
C16_Witness ==
    /\ gen.pc = "failed"
    /\ gen.error = Err("AudioRejected")
    /\ gen.clipCount = 1
    /\ gen.totalClips > 1
    /\ \E r \in gen.outstanding : r.kind = "image" /\ r.n = 1
    /\ Cardinality(MediaRequestAt) = 2

\* C17: in a returned storyboard the k-th clip (scene-major, clip-minor) has the
\* clip number, narration and prompt of the k-th clip of the structure, its audio
\* is the payload answered to the audio request of the k-th clip and its image is
\* the PNG data reference of the payload answered to the image request of the k-th
\* clip.
C17_MediaOfOwnClip ==
    gen.pc = "done" =>
        LET S == ClipsInOrder(gen.storyStructure)
            R == ClipsInOrder(gen.returned)
        IN  /\ Len(R) = Len(S)
            /\ \A k \in 1..Len(R) :
                 /\ R[k].scene = S[k].scene
                 /\ R[k].clip.clip = S[k].clip.clip
                 /\ R[k].clip.narration = S[k].clip.narration
                 /\ R[k].clip.prompt = S[k].clip.prompt
                 /\ R[k].clip.audio = PayloadOf(AudioRequest(k, S[k].clip))
                 /\ R[k].clip.image = DataUrl(PayloadOf(ImageRequest(k, S[k].clip)))

\* a returned storyboard of three clips or more whose clip numbers are not their
\* positions
C17_Witness ==
    /\ gen.pc = "done"
    /\ Len(ClipsInOrder(gen.returned)) >= 3
    /\ ClipsInOrder(gen.returned)[1].clip.clip # 1
    /\ ClipsInOrder(gen.returned)[3].clip.audio = <<"pcm", 3>>

\* C18, as claimed: the completion message is the last invocation of the callback
\* of a run that succeeded and follows the per-clip message whose counter is the
\* total; a run that has not succeeded, a failed one included, has not reported it.
C18_CompletionIffSuccess ==
    /\ gen.pc = "done" =>
         /\ ProgressAt(MsgDone.m) = {Len(Log)}
         /\ gen.totalClips > 0 =>
              \E i \in ClipProgressAt : Log[i].count = gen.totalClips /\ i < Len(Log)
    /\ gen.pc # "done" => ProgressAt(MsgDone.m) = {}


(***************************************************************************)
(* Properties of the App component, checked under SpecApp.                 *)
(***************************************************************************)
\* C14: when a run fails, handleGenerate leaves App with the error message of that
\* failure, no storyboard, isLoading false and no progress message; while the
\* failed run is the last one the form stays rendered with its button enabled; a
\* submission after a failed run starts a run that holds nothing of the failed
\* one and begins with a new structure request; and when such a retry succeeds it
\* has issued one structure request and one image and one audio request for every
\* clip of its own structure.
C14_FailureThenRetryFromScratch ==
    /\ [][(~Settled /\ gen'.pc = "failed") =>
            /\ app'.error = AppError(gen'.error)
            /\ app'.storyboard.isNull
            /\ ~app'.isLoading
            /\ app'.progressMessage = NoMessage]_vars
    /\ [](gen.pc = "failed" => app.storyboard.isNull /\ ~app.isLoading)
    /\ [][(gen.pc = "failed" /\ app'.isLoading) =>
            /\ app'.retry
            /\ app'.error.isNull
            /\ app'.storyboard.isNull
            /\ gen'.pc = "awaitStructure"
            /\ gen'.log = <<MsgAnalyze, Issued(StructureRequest)>>
            /\ gen'.outstanding = {StructureRequest}
            /\ ~gen'.parsed
            /\ gen'.storyStructure = <<>>
            /\ gen'.finalStoryboard = <<>>
            /\ gen'.generatedClips = <<>>
            /\ gen'.clipCount = 0]_vars
    /\ []((app.retry /\ gen.pc = "done") =>
            /\ Cardinality(RequestAt("structure")) = 1
            /\ Len(ClipsInOrder(gen.returned)) = Len(ClipsInOrder(gen.storyStructure))
            /\ \A k \in 1..Len(ClipsInOrder(gen.storyStructure)) :
                 /\ Cardinality(RequestsFor("image", k)) = 1
                 /\ Cardinality(RequestsFor("audio", k)) = 1)

\* the run submitted after a failed run has succeeded and its storyboard is shown
C14_Witness ==
    /\ app.retry
    /\ gen.pc = "done"
    /\ ~app.isLoading
    /\ app.error.isNull
    /\ app.storyboard = [isNull |-> FALSE, scenes |-> gen.returned]
    /\ gen.totalClips >= 2

\* a run of generateStoryboard has been started and has not settled
InFlight == gen.pc \in {"awaitStructure", "awaitMedia"}

\* gen.log continues into the log of the next state
LogContinues ==
    /\ Len(gen'.log) >= Len(gen.log)
    /\ SubSeq(gen'.log, 1, Len(gen.log)) = gen.log

\* C21: isLoading is true exactly while the run started by handleGenerate has not
\* settled, and the progress message is empty whenever isLoading is false; while
\* a run is in flight no step starts another one; a run is started only from a
\* state with isLoading false and makes it true; and the step that settles the
\* run, by success or by failure, sets isLoading false and clears the message.
C21_LoadingWhileRunInFlight ==
    /\ [](app.isLoading <=> InFlight)
    /\ [](~app.isLoading => app.progressMessage = NoMessage)
    /\ [][InFlight => (LogContinues /\ gen'.pc # "idle")]_vars
    /\ [][(gen'.log # gen.log /\ gen'.log = <<MsgAnalyze, Issued(StructureRequest)>>) =>
            /\ ~app.isLoading
            /\ ~InFlight
            /\ app'.isLoading]_vars
    /\ [][(InFlight /\ gen'.pc \in {"done", "failed"}) =>
            /\ ~app'.isLoading
            /\ app'.progressMessage = NoMessage]_vars

\* the run submitted after a failed one is at its second clip: isLoading is true
\* and the progress message is that of the clip
C21_Witness ==
    /\ app.retry
    /\ app.isLoading
    /\ gen.pc = "awaitMedia"
    /\ gen.clipCount = 2
    /\ app.progressMessage = gen.log[Len(gen.log) - 2]
    /\ app.progressMessage.m = "Membuat visual & audio"

\* C22: storyboard and error are never both set; a storyboard is held only when
\* the run started last has succeeded, and it is the storyboard that run returned;
\* an error is held only when the run started last has failed, and it is the error
\* of that run; the start of a run clears both; and the reset of a displayed
\* storyboard clears it.
C22_ResultOrErrorOfLastRun ==
    /\ [](app.storyboard.isNull \/ app.error.isNull)
    /\ [](~app.storyboard.isNull =>
            /\ gen.pc = "done"
            /\ app.storyboard.scenes = gen.returned)
    /\ [](~app.error.isNull =>
            /\ gen.pc = "failed"
            /\ app.error = AppError(gen.error))
    /\ [][(~app.isLoading /\ app'.isLoading) =>
            /\ app'.storyboard.isNull
            /\ app'.error.isNull]_vars
    /\ [][(~app.storyboard.isNull /\ app' # app) =>
            /\ app'.storyboard.isNull
            /\ app'.error.isNull
            /\ ~app'.isLoading]_vars

\* the storyboard of a successful run was reset: the run started last has
\* succeeded and App holds neither a storyboard nor an error
C22_Witness ==
    /\ gen.pc = "done"
    /\ Len(gen.returned) >= 1
    /\ app.storyboard.isNull
    /\ app.error.isNull
    /\ ~app.isLoading

(***************************************************************************)
(* Properties of the decoding, checked under SpecDecode.                   *)
(***************************************************************************)
\* C15: decode gives back the bytes of the payload, and the buffer decoded from a
\* payload of N signed 16-bit little-endian samples has exactly N values, the i-th
\* being the i-th sample over 32768, with its sign and at its position, and every
\* value is at least -1 and less than 1.
C15_SamplesOver32768 ==
    /\ dec.pc \in {"decoded", "buffered"} => dec.rawAudio = dec.payload
    /\ dec.pc = "buffered" =>
         /\ Len(dec.payload) = 2 * Len(dec.samples)
         /\ Len(dec.channelData) = Len(dec.samples)
         /\ \A i \in 1..Len(dec.samples) :
              /\ dec.channelData[i].den = 32768
              /\ dec.channelData[i].num = dec.samples[i]
              /\ -dec.channelData[i].den <= dec.channelData[i].num
              /\ dec.channelData[i].num < dec.channelData[i].den

\* the payload of the lowest sample followed by the highest one was decoded
C15_Witness ==
    /\ dec.pc = "buffered"
    /\ dec.samples = <<-32768, 32767>>
    /\ dec.payload = <<0, 128, 255, 127>>
    /\ Len(dec.channelData) = 2

(***************************************************************************)
(* Properties of the audio player, checked under SpecPlayback.             *)
(***************************************************************************)
EventsAt(e, s) == {i \in 1..Len(events) : events[i].e = e /\ events[i].s = s}

\* C8, as claimed: at most one source is playing.
C8_AtMostOnePlaying == Cardinality(Playing) <= 1

\* C9, as claimed: every source that was playing when a playAudio call was made
\* has had stop and disconnect invoked before the source of that call is started,
\* and when the call completes currentSource is its source.
C9_PriorStoppedBeforeStart ==
    \A j \in 1..Len(events) :
        /\ events[j].e = "start" =>
             \A prior \in sources[events[j].s].playingAtCall :
                 /\ \E i \in EventsAt("stop", prior) : i < j
                 /\ \E i \in EventsAt("disconnect", prior) : i < j
        /\ events[j].e = "resolved" => events[j].current = events[j].s

\* C10, as claimed: onEnded of a source is invoked once after its natural end and
\* never when the playback was ended by a stop.
C10_OnEndedOnlyAfterNaturalEnd ==
    \A s \in 1..Len(sources) :
        LET n == Cardinality(EventsAt("onEnded", s))
        IN  /\ n <= 1
            /\ sources[s].how = "stop" => n = 0
            /\ (sources[s].how = "natural" /\ sources[s].state = "ended") => n = 1

\* C10, amended: onEnded of a source is invoked exactly once, when the ended event
\* of the source is dispatched, after its natural end as well as after a stop; it
\* is not invoked before the source has ended, nor for a call that started none.
C10_OnEndedOncePerEndedSource ==
    \A s \in 1..Len(sources) :
        /\ Cardinality(EventsAt("onEnded", s)) = IF sources[s].state = "ended" THEN 1 ELSE 0
        /\ sources[s].state = "ended" => sources[s].how \in {"natural", "stop"}

\* one playback ended naturally, one was stopped by stopAudio or by a later
\* playAudio, and onEnded of each has been invoked
C10_Witness ==
    /\ \E s \in 1..Len(sources) :
         /\ sources[s].how = "natural"
         /\ sources[s].state = "ended"
         /\ Cardinality(EventsAt("onEnded", s)) = 1
    /\ \E s \in 1..Len(sources) :
         /\ sources[s].how = "stop"
         /\ sources[s].state = "ended"
         /\ Cardinality(EventsAt("onEnded", s)) = 1

\* C11: stopAudio without a current source changes nothing and invokes stop on no
\* source; applied twice it leaves the state of one application; and no source
\* ever has stop or disconnect invoked on it a second time by stopAudio.
C11_StopAudioIdempotent ==
    /\ currentSource = 0 => stopAudio(Player) = Player
    /\ stopAudio(stopAudio(Player)) = stopAudio(Player)
    /\ stopAudio(Player).currentSource = 0
    /\ \A s \in 1..Len(sources) :
         /\ Cardinality(EventsAt("stop", s)) <= 1
         /\ Cardinality(EventsAt("disconnect", s)) <= 1

\* stopAudio has stopped a playing source and cleared the handle: a second call
\* finds no current source
C11_Witness ==
    /\ currentSource = 0
    /\ \E s \in 1..Len(sources) :
         /\ sources[s].state = "stopped"
         /\ Cardinality(EventsAt("stop", s)) = 1
         /\ events[Len(events)] = [e |-> "disconnect", s |-> s]

\* C19, as claimed: every source that is playing is the one currentSource refers
\* to; in particular the ended handler of an earlier source does not clear
\* currentSource while a later source plays.
C19_HandleTracksPlaying == \A s \in Playing : currentSource = s

(***************************************************************************)
(* Properties of the storyboard display, checked under SpecDisplay.        *)
(***************************************************************************)
\* no call is suspended, no source plays and no ended event is due
Quiescent ==
    /\ pending = <<>>
    /\ \A s \in 1..Len(sources) : sources[s].state \in {"rejected", "ended"}

\* C20, as claimed: once the playback has come to rest (after a stop, a natural
\* end or a failed decoding, with every ended event delivered) playingClipId is
\* null; and while the source of the clip started last is playing, playingClipId
\* names that clip, whatever callbacks of earlier clips have run.
C20_IndicatorFollowsPlayback ==
    display.mounted =>
        /\ Quiescent => display.playingClipId = 0
        /\ \A s \in Playing :
             s = Len(sources) => display.playingClipId = display.clipOf[s]

====
